---- MODULE Spec2Model ----
(***************************************************************************)
(* Model of currencyconsts.py: the process-wide configuration, the rate    *)
(* cache guarded by one lock, the sequential endpoint fetch with its       *)
(* response normaliser, and the conversion arithmetic of Currency.         *)
(* Threads call set_base, set_margin, set_cache_ttl, refresh_rates and the *)
(* properties / operators of a Currency handle.  Time is counted in        *)
(* minutes.  Numbers are exact rationals [n, d] (floating point rounding   *)
(* is not modelled).                                                       *)
(***************************************************************************)
EXTENDS Integers, Sequences, FiniteSets, TLC

\* ------------------------------------------------------------------ bounds
\* the clock stops after MaxTime minutes
MaxTime == 1
\* the length of _config['api_endpoints']
NumEndpoints == 2

\* two threads share the module: every interleaving the properties below are
\* about is one of a pair of calls
Threads == {1, 2}
NoThread == 0

\* ------------------------------------------------------ exact arithmetic
Abs(x) == IF x < 0 THEN -x ELSE x

RECURSIVE GCD(_, _)
GCD(a, b) == IF b = 0 THEN a ELSE GCD(b, a % b)

\* the rational n/d in lowest terms with a positive denominator (d /= 0)
Rat(n, d) ==
    LET g == GCD(Abs(n), Abs(d))
        s == IF d < 0 THEN -1 ELSE 1
    IN  [n |-> (s * n) \div g, d |-> (s * d) \div g]

Num(i) == [n |-> i, d |-> 1]
RMul(x, y) == Rat(x.n * y.n, x.d * y.d)
RAdd(x, y) == Rat(x.n * y.d + y.n * x.d, x.d * y.d)
RSub(x, y) == Rat(x.n * y.d - y.n * x.d, x.d * y.d)
\* x / y, y /= 0
RDiv(x, y) == Rat(x.n * y.d, x.d * y.n)
RIsZero(x) == x.n = 0
RPos(x) == x.n > 0
\* Python's x // y on numbers: floor of the quotient (y /= 0)
RFloorDiv(x, y) == LET q == RDiv(x, y) IN Num(q.n \div q.d)
\* Python's x % y: x - y * floor(x / y)  (y /= 0)
RMod(x, y) == RSub(x, RMul(y, RFloorDiv(x, y)))

\* ------------------------------------------------------------- strings
\* str.upper() and str.lower() on the strings that occur in the model
UpperOf ==
    [usd |-> "USD", eur |-> "EUR", zzz |-> "ZZZ",
     USD |-> "USD", EUR |-> "EUR", ZZZ |-> "ZZZ"]
LowerOf ==
    [usd |-> "usd", eur |-> "eur", zzz |-> "zzz",
     USD |-> "usd", EUR |-> "eur", ZZZ |-> "zzz"]
Upper(s) == UpperOf[s]
Lower(s) == LowerOf[s]

\* --------------------------------------------------------- JSON payloads
\* A JSON object is a function from keys to tagged values; the values of a
\* nested code -> rate mapping are numbers (rationals).
JNum(r) == [t |-> "num", v |-> r]
JObj(m) == [t |-> "obj", v |-> m]
JStr == [t |-> "str", v |-> "text"]
EmptyMap == [k \in {} |-> Num(0)]

\* {k.upper(): v for k, v in m.items()}
UpperKeys(m) ==
    [K \in {Upper(k) : k \in DOMAIN m} |->
        m[CHOOSE k \in DOMAIN m : Upper(k) = K]]

\* _parse_api_response raises (AttributeError on .items()) when the field it
\* selects is no mapping
ParseRaises(d, b) ==
    IF "rates" \in DOMAIN d THEN d["rates"].t /= "obj"
    ELSE IF Lower(b) \in DOMAIN d THEN d[Lower(b)].t /= "obj"
    ELSE FALSE

\* a normaliser that looks for the key of the base before the rates field
ParseApiResponseBaseFirst(d, b) ==
    IF Lower(b) \in DOMAIN d /\ d[Lower(b)].t = "obj"
    THEN UpperKeys(d[Lower(b)].v)
    ELSE IF "rates" \in DOMAIN d THEN UpperKeys(d["rates"].v)
    ELSE IF Lower(b) \in DOMAIN d THEN UpperKeys(d[Lower(b)].v)
    ELSE IF \A k \in DOMAIN d : d[k].t = "num"
         THEN UpperKeys([k \in DOMAIN d |-> d[k].v])
    ELSE EmptyMap

\* _parse_api_response: the three formats, first match wins, else {}
ParseApiResponse(d, b) ==
    IF "rates" \in DOMAIN d THEN UpperKeys(d["rates"].v)
    ELSE IF Lower(b) \in DOMAIN d THEN UpperKeys(d[Lower(b)].v)
    ELSE IF \A k \in DOMAIN d : d[k].t = "num"
         THEN UpperKeys([k \in DOMAIN d |-> d[k].v])
    ELSE EmptyMap

\* ------------------------------------------------------------ the network
\* The rates a live endpoint quotes for a base (keys as the APIs send them)
QuotedRates(B) ==
    IF B = "USD" THEN [usd |-> Num(1), eur |-> Rat(9, 10)]
    ELSE [usd |-> Rat(5, 4), eur |-> Num(1)]

\* Bodies an endpoint may answer to a request for base B (upper-cased)
Payloads(B) ==
    { [rates |-> JObj(QuotedRates(B))],
      (Lower(B) :> JObj(QuotedRates(B))),
      [k \in DOMAIN QuotedRates(B) |-> JNum(QuotedRates(B)[k])],
      [rates |-> JObj(EmptyMap)],
      [error |-> JStr],
      [rates |-> JStr] }

\* Well-formed bodies no market quotes: a rate of 0 and a negative rate
OddPayloads ==
    { [rates |-> JObj([usd |-> Num(1), eur |-> Num(0)])],
      [rates |-> JObj([usd |-> Num(1), eur |-> Rat(-9, 10)])] }

\* requests.get / raise_for_status / response.json either raise or give a body
Exceptions == {"transport", "http_status", "bad_json"}
Responses(B) ==
    {[exc |-> e, body |-> [error |-> JStr]] : e \in Exceptions}
    \cup {[exc |-> "none", body |-> p] : p \in Payloads(B)}

\* ------------------------------------------------------------------ state
NoneTime == -1
\* a rate table with the base it was requested for (src is bookkeeping of the
\* model: the dict of the code is the field map)
EmptyTable == [src |-> "None", map |-> EmptyMap]
Truthy(tbl) == DOMAIN tbl.map /= {}

VARIABLES
    config,     \* _config: base_currency, margin_percent, cache_ttl_minutes
    cache,      \* _cache: rates, last_fetch, base
    lock,       \* the thread holding _lock, or NoThread
    clock,      \* datetime.now(), in minutes
    pc,         \* where each thread is
    call,       \* the operation a thread runs: op, code, amount
    now,        \* local `now` of _get_rates
    base,       \* local `base` of _get_rates
    ep,         \* index of the endpoint _fetch_rates tries next
    errors,     \* local `errors` of _fetch_rates (endpoints recorded)
    contacted,  \* endpoints requested by the running _fetch_rates
    rates,      \* the table _get_rates returned to the thread
    marginSeen, \* the margin_percent the test of _convert read
    result,     \* what the finished operation returned or raised
    lastCS,     \* the last critical section that completed
    pre,        \* the valid table cached when refresh_rates cleared the entry
    concur,     \* the thread waited for the lock while another stored a fetch
    data,       \* argument `data` of a call of _parse_api_response
    dataBase,   \* argument `base` of that call
    parsed      \* what that call returned or that it raised

vars == <<config, cache, lock, clock, pc, call, now, base, ep, errors,
          contacted, rates, marginSeen, result, lastCS, pre, concur,
          data, dataBase, parsed>>

\* the call of _parse_api_response that is studied on its own
parse == <<data, dataBase, parsed>>

locals == <<now, base, ep, errors, contacted>>

NoResult == [kind |-> "none", val |-> Num(0), src |-> "None"]
NoCall == [op |-> "none", code |-> "None", amount |-> Num(0)]

\* the module right after import, lines 32-50
Loaded ==
    /\ config = [base_currency |-> "usd", margin_percent |-> Num(0),
                 cache_ttl_minutes |-> 60]
    /\ cache = [rates |-> EmptyTable, last_fetch |-> NoneTime, base |-> "None"]
    /\ lock = NoThread
    /\ clock = 0
    /\ pc = [t \in Threads |-> "idle"]
    /\ call = [t \in Threads |-> NoCall]
    /\ now = [t \in Threads |-> 0]
    /\ base = [t \in Threads |-> "None"]
    /\ ep = [t \in Threads |-> 1]
    /\ errors = [t \in Threads |-> <<>>]
    /\ contacted = [t \in Threads |-> <<>>]
    /\ rates = [t \in Threads |-> EmptyTable]
    /\ marginSeen = [t \in Threads |-> Num(0)]
    /\ result = [t \in Threads |-> NoResult]
    /\ lastCS = "none"
    /\ pre = [t \in Threads |-> EmptyTable]
    /\ concur = [t \in Threads |-> FALSE]

NoData == [k \in {} |-> JStr]
NotParsed == [kind |-> "none", map |-> EmptyMap]

Init ==
    /\ Loaded
    /\ data = NoData
    /\ dataBase = "usd"
    /\ parsed = NotParsed

\* ----------------------------------------------------- inputs of the calls
BaseArgs == {"usd", "eur"}
MarginArgs == {Num(0), Rat(7, 2), Num(-5)}
TtlArgs == {0, 1}
HandleCodes == {"EUR", "ZZZ"}
Amounts == {Num(0), Num(100), Rat(-5, 2)}
\* the calls of the threads that contend for the cache: EUR.rate, ZZZ.rate
\* and 100 * EUR
CacheCalls ==
    { [op |-> "rate", code |-> "EUR", amount |-> Num(0)],
      [op |-> "rate", code |-> "ZZZ", amount |-> Num(0)],
      [op |-> "rmul", code |-> "EUR", amount |-> Num(100)] }
\* the thread that uses the handles while the others only configure
User == CHOOSE t \in Threads : TRUE
ConvertOps == {"rmul", "mul", "truediv", "floordiv", "rfloordiv", "add",
               "radd", "sub", "rsub", "mod", "rmod"}
LookupOps == {"rate", "rate_with_margin", "rtruediv"} \cup ConvertOps

\* --------------------------------------------------- conversion arithmetic
\* Currency.rate_with_margin, line 206: base_rate * (1 - margin / 100)
RateWithMargin(r, m) == RMul(r, RSub(Num(1), RDiv(m, Num(100))))

\* whether the margin is applied: the test of _convert, line 264, on the
\* margin it read; rate_with_margin applies it always, rate and __rtruediv__
\* never
UsesMargin(o, seen) ==
    IF o \in ConvertOps THEN RPos(seen) ELSE o = "rate_with_margin"

\* a _convert that takes rate_with_margin whatever the margin is
EffectiveRateAlwaysMargin(r, um, m) == RateWithMargin(r, m)

\* the rate _convert multiplies by, line 264; um is the outcome of its test
\* margin_percent > 0 and m the margin rate_with_margin reads afterwards
EffectiveRate(r, um, m) == IF um THEN RateWithMargin(r, m) ELSE r

\* Currency._convert: amount * rate
Convert(a, r, um, m) == RMul(a, EffectiveRate(r, um, m))

Value(x, tbl) == [kind |-> "value", val |-> x, src |-> tbl.src]
Raised(k) == [kind |-> k, val |-> Num(0), src |-> "None"]
ReturnedNone == Raised("None")

\* the operators of Currency, lines 214-260, on rate r of the handle's code
OperatorResult(o, a, r, um, m) ==
    LET one == Convert(Num(1), r, um, m) IN
    CASE o = "rate" -> [ok |-> TRUE, v |-> r]
      [] o = "rate_with_margin" -> [ok |-> TRUE, v |-> RateWithMargin(r, m)]
      [] o \in {"rmul", "mul"} -> [ok |-> TRUE, v |-> Convert(a, r, um, m)]
      [] o = "truediv" ->
            [ok |-> TRUE, v |-> Convert(RDiv(Num(1), a), r, um, m)]
      [] o = "rtruediv" ->
            IF RIsZero(r) THEN [ok |-> FALSE, v |-> Num(0)]
            ELSE [ok |-> TRUE, v |-> RDiv(a, r)]
      [] o = "floordiv" ->
            IF RIsZero(a) THEN [ok |-> FALSE, v |-> Num(0)]
            ELSE [ok |-> TRUE, v |-> RFloorDiv(one, a)]
      [] o = "rfloordiv" ->
            IF RIsZero(one) THEN [ok |-> FALSE, v |-> Num(0)]
            ELSE [ok |-> TRUE, v |-> RFloorDiv(a, one)]
      [] o \in {"add", "radd"} -> [ok |-> TRUE, v |-> RAdd(one, a)]
      [] o = "sub" -> [ok |-> TRUE, v |-> RSub(one, a)]
      [] o = "rsub" -> [ok |-> TRUE, v |-> RSub(a, one)]
      [] o = "mod" ->
            IF RIsZero(a) THEN [ok |-> FALSE, v |-> Num(0)]
            ELSE [ok |-> TRUE, v |-> RMod(one, a)]
      [] o = "rmod" ->
            IF RIsZero(one) THEN [ok |-> FALSE, v |-> Num(0)]
            ELSE [ok |-> TRUE, v |-> RMod(a, one)]

\* a rate property written with rates.get(self.code, 0): an absent code is
\* given the rate 0 instead of raising
LookupResultDefaultsZero(c, tbl, um, m) ==
    IF c.op = "refresh" THEN ReturnedNone
    ELSE LET r == IF c.code \in DOMAIN tbl.map THEN tbl.map[c.code]
                  ELSE Num(0)
             res == OperatorResult(c.op, c.amount, r, um, m)
         IN  IF res.ok THEN Value(res.v, tbl) ELSE Raised("ZeroDivisionError")

\* Currency.rate, lines 194-198, followed by the operator's arithmetic
LookupResult(c, tbl, um, m) ==
    IF c.op = "refresh" THEN ReturnedNone
    ELSE IF c.code \notin DOMAIN tbl.map THEN Raised("ValueError")
    ELSE LET res == OperatorResult(c.op, c.amount, tbl.map[c.code], um, m)
         IN  IF res.ok THEN Value(res.v, tbl) ELSE Raised("ZeroDivisionError")

\* ------------------------------------------------------------- the cache
\* the validity test with the age compared by <= instead of <
CacheValidInclusive(c, b, n, ttl) ==
    /\ Truthy(c.rates)
    /\ c.base = b
    /\ c.last_fetch /= NoneTime
    /\ (n - c.last_fetch) <= ttl

\* the validity test of _get_rates, lines 110-113
CacheValid(c, b, n, ttl) ==
    /\ Truthy(c.rates)
    /\ c.base = b
    /\ c.last_fetch /= NoneTime
    /\ (n - c.last_fetch) < ttl

\* lines 128-129 and 150-151
Cleared(c) == [c EXCEPT !.rates = EmptyTable, !.last_fetch = NoneTime]

\* ---------------------------------------------------------------- actions
\* the frame of _get_rates / _fetch_rates is left
LocalsGone(t) ==
    /\ now' = [now EXCEPT ![t] = 0]
    /\ base' = [base EXCEPT ![t] = "None"]
    /\ ep' = [ep EXCEPT ![t] = 1]
    /\ errors' = [errors EXCEPT ![t] = <<>>]
    /\ contacted' = [contacted EXCEPT ![t] = <<>>]

Finished(t, r) ==
    /\ pc' = [pc EXCEPT ![t] = "done"]
    /\ result' = [result EXCEPT ![t] = r]

\* a thread calls set_base(c) and blocks on `with _lock`
SetBaseCall(t, c) ==
    /\ pc[t] = "idle"
    /\ pc' = [pc EXCEPT ![t] = "sb_wait"]
    /\ call' = [call EXCEPT ![t] = [op |-> "set_base", code |-> c,
                                    amount |-> Num(0)]]
    /\ UNCHANGED <<config, cache, lock, clock, parse, locals, rates, marginSeen,
                   result, lastCS, pre, concur>>

\* set_base written like set_margin, without `with _lock`
SetBaseNoLock(t) ==
    /\ pc[t] = "sb_wait"
    /\ config' = [config EXCEPT !.base_currency = Upper(call[t].code)]
    /\ cache' = Cleared(cache)
    /\ Finished(t, ReturnedNone)
    /\ lastCS' = "set_base"
    /\ concur' = [u \in Threads |-> concur[u] /\ pc[u] /= "gr_wait"]
    /\ UNCHANGED <<lock, clock, parse, call, locals, rates, marginSeen, pre>>

\* set_base that forgets to invalidate the entry (lines 150-151 missing)
SetBaseKeepsEntry(t) ==
    /\ pc[t] = "sb_wait"
    /\ lock = NoThread
    /\ config' = [config EXCEPT !.base_currency = Upper(call[t].code)]
    /\ Finished(t, ReturnedNone)
    /\ lastCS' = "set_base"
    /\ concur' = [u \in Threads |-> concur[u] /\ pc[u] /= "gr_wait"]
    /\ UNCHANGED <<cache, lock, clock, parse, call, locals, rates, marginSeen, pre>>

\* set_base, lines 148-151: the whole critical section
SetBase(t) ==
    /\ pc[t] = "sb_wait"
    /\ lock = NoThread
    /\ config' = [config EXCEPT !.base_currency = Upper(call[t].code)]
    /\ cache' = Cleared(cache)
    /\ Finished(t, ReturnedNone)
    /\ lastCS' = "set_base"
    /\ concur' = [u \in Threads |-> concur[u] /\ pc[u] /= "gr_wait"]
    /\ UNCHANGED <<lock, clock, parse, call, locals, rates, marginSeen, pre>>

\* set_margin, line 167 (takes no lock)
SetMargin(t, p) ==
    /\ pc[t] = "idle"
    /\ config' = [config EXCEPT !.margin_percent = p]
    /\ UNCHANGED <<cache, lock, clock, parse, pc, call, locals, rates, marginSeen,
                   result, lastCS, pre, concur>>

\* a set_cache_ttl that also invalidates the cached entry
SetCacheTtlClears(t, m) ==
    /\ pc[t] = "idle"
    /\ config' = [config EXCEPT !.cache_ttl_minutes = m]
    /\ cache' = Cleared(cache)
    /\ UNCHANGED <<lock, clock, parse, pc, call, locals, rates, marginSeen,
                   result, lastCS, pre, concur>>

\* set_cache_ttl, line 172 (takes no lock)
SetCacheTtl(t, m) ==
    /\ pc[t] = "idle"
    /\ config' = [config EXCEPT !.cache_ttl_minutes = m]
    /\ UNCHANGED <<cache, lock, clock, parse, pc, call, locals, rates, marginSeen,
                   result, lastCS, pre, concur>>

\* a thread calls refresh_rates and blocks on its first `with _lock`
RefreshCall(t) ==
    /\ pc[t] = "idle"
    /\ pc' = [pc EXCEPT ![t] = "rf_wait"]
    /\ call' = [call EXCEPT ![t] = [op |-> "refresh", code |-> "None",
                                    amount |-> Num(0)]]
    /\ UNCHANGED <<config, cache, lock, clock, parse, locals, rates, marginSeen,
                   result, lastCS, pre, concur>>

\* a refresh_rates that takes the lock but leaves the entry as it is
RefreshKeepsEntry(t) ==
    /\ pc[t] = "rf_wait"
    /\ lock = NoThread
    /\ pre' = [pre EXCEPT ![t] =
                 IF CacheValid(cache, config.base_currency, clock,
                               config.cache_ttl_minutes)
                 THEN cache.rates ELSE EmptyTable]
    /\ pc' = [pc EXCEPT ![t] = "gr_wait"]
    /\ lastCS' = "refresh_clear"
    /\ UNCHANGED <<config, cache, lock, clock, parse, call, locals, rates,
                   marginSeen, result, concur>>

\* refresh_rates, lines 127-129; the lock is released before line 130
RefreshClear(t) ==
    /\ pc[t] = "rf_wait"
    /\ lock = NoThread
    /\ pre' = [pre EXCEPT ![t] =
                 IF CacheValid(cache, config.base_currency, clock,
                               config.cache_ttl_minutes)
                 THEN cache.rates ELSE EmptyTable]
    /\ cache' = Cleared(cache)
    /\ pc' = [pc EXCEPT ![t] = "gr_wait"]
    /\ lastCS' = "refresh_clear"
    /\ concur' = [u \in Threads |-> concur[u] /\ pc[u] /= "gr_wait"]
    /\ UNCHANGED <<config, lock, clock, parse, call, locals, rates, marginSeen,
                   result>>

\* a thread uses a property or an operator of a Currency handle: 1 / amount
\* of __truediv__ and the margin test of _convert come before _get_rates
LookupCall(t, o, c, a) ==
    /\ pc[t] = "idle"
    /\ call' = [call EXCEPT ![t] = [op |-> o, code |-> c, amount |-> a]]
    /\ IF o = "truediv" /\ RIsZero(a)
       THEN /\ Finished(t, Raised("ZeroDivisionError"))
            /\ UNCHANGED marginSeen
       ELSE /\ pc' = [pc EXCEPT ![t] = "gr_wait"]
            /\ marginSeen' = [marginSeen EXCEPT ![t] =
                  IF o \in ConvertOps THEN config.margin_percent
                  ELSE Num(0)]
            /\ UNCHANGED result
    /\ UNCHANGED <<config, cache, lock, clock, parse, locals, rates, lastCS, pre,
                   concur>>

\* _get_rates, lines 105-114: the entry is valid and is returned
GetRatesHit(t) ==
    /\ pc[t] = "gr_wait"
    /\ lock = NoThread
    /\ CacheValid(cache, config.base_currency, clock,
                  config.cache_ttl_minutes)
    /\ rates' = [rates EXCEPT ![t] = cache.rates]
    /\ pc' = [pc EXCEPT ![t] = "got"]
    /\ lastCS' = "get_rates"
    /\ UNCHANGED <<config, cache, lock, clock, parse, call, locals, marginSeen,
                   result, pre, concur>>

\* _get_rates without `with _lock`: the test and the fetch are not guarded
GetRatesMissNoLock(t) ==
    /\ pc[t] = "gr_wait"
    /\ ~CacheValid(cache, config.base_currency, clock,
                   config.cache_ttl_minutes)
    /\ lock' = t
    /\ now' = [now EXCEPT ![t] = clock]
    /\ base' = [base EXCEPT ![t] = config.base_currency]
    /\ ep' = [ep EXCEPT ![t] = 1]
    /\ errors' = [errors EXCEPT ![t] = <<>>]
    /\ contacted' = [contacted EXCEPT ![t] = <<>>]
    /\ pc' = [pc EXCEPT ![t] = "fetching"]
    /\ UNCHANGED <<config, cache, clock, parse, call, rates, marginSeen, result,
                   lastCS, pre, concur>>

\* _get_rates that stamps the entry before the fetch has succeeded
GetRatesMissStampsFirst(t) ==
    /\ pc[t] = "gr_wait"
    /\ lock = NoThread
    /\ ~CacheValid(cache, config.base_currency, clock,
                   config.cache_ttl_minutes)
    /\ lock' = t
    /\ cache' = [cache EXCEPT !.last_fetch = clock]
    /\ now' = [now EXCEPT ![t] = clock]
    /\ base' = [base EXCEPT ![t] = config.base_currency]
    /\ ep' = [ep EXCEPT ![t] = 1]
    /\ errors' = [errors EXCEPT ![t] = <<>>]
    /\ contacted' = [contacted EXCEPT ![t] = <<>>]
    /\ pc' = [pc EXCEPT ![t] = "fetching"]
    /\ UNCHANGED <<config, clock, parse, call, rates, marginSeen, result, lastCS,
                   pre, concur>>

\* _get_rates, lines 105-117: the entry is not valid, _fetch_rates(base)
\* starts with the lock held
GetRatesMiss(t) ==
    /\ pc[t] = "gr_wait"
    /\ lock = NoThread
    /\ ~CacheValid(cache, config.base_currency, clock,
                   config.cache_ttl_minutes)
    /\ lock' = t
    /\ now' = [now EXCEPT ![t] = clock]
    /\ base' = [base EXCEPT ![t] = config.base_currency]
    /\ ep' = [ep EXCEPT ![t] = 1]
    /\ errors' = [errors EXCEPT ![t] = <<>>]
    /\ contacted' = [contacted EXCEPT ![t] = <<>>]
    /\ pc' = [pc EXCEPT ![t] = "fetching"]
    /\ UNCHANGED <<config, cache, clock, parse, call, rates, marginSeen, result,
                   lastCS, pre, concur>>

\* an except branch that requests the same endpoint again
RecordErrorRetries(t) ==
    /\ errors' = [errors EXCEPT ![t] = Append(@, ep[t])]
    /\ contacted' = [contacted EXCEPT ![t] = Append(@, ep[t])]
    /\ UNCHANGED <<config, cache, lock, clock, parse, pc, call, now, base, ep,
                   rates, marginSeen, result, lastCS, pre, concur>>

\* _fetch_rates, lines 96-98: the endpoint raised, the error is recorded
RecordError(t) ==
    /\ errors' = [errors EXCEPT ![t] = Append(@, ep[t])]
    /\ contacted' = [contacted EXCEPT ![t] = Append(@, ep[t])]
    /\ ep' = [ep EXCEPT ![t] = @ + 1]
    /\ UNCHANGED <<config, cache, lock, clock, parse, pc, call, now, base, rates,
                   marginSeen, result, lastCS, pre, concur>>

\* _fetch_rates, lines 92-93: the parsed rates are empty, the loop goes on
SkipEmpty(t) ==
    /\ contacted' = [contacted EXCEPT ![t] = Append(@, ep[t])]
    /\ ep' = [ep EXCEPT ![t] = @ + 1]
    /\ UNCHANGED <<config, cache, lock, clock, parse, pc, call, now, base, errors,
                   rates, marginSeen, result, lastCS, pre, concur>>

\* _fetch_rates line 94 and _get_rates lines 118-122: the rates are stored
\* and returned, the lock is released
StoreRates(t, tbl) ==
    /\ LocalsGone(t)
    /\ cache' = [rates |-> tbl, last_fetch |-> now[t], base |-> base[t]]
    /\ lock' = NoThread
    /\ rates' = [rates EXCEPT ![t] = tbl]
    /\ pc' = [pc EXCEPT ![t] = "got"]
    /\ lastCS' = "get_rates"
    /\ concur' = [u \in Threads |->
                    IF u /= t /\ pc[u] = "gr_wait" THEN TRUE ELSE concur[u]]
    /\ UNCHANGED <<config, clock, parse, call, marginSeen, result, pre>>

\* _fetch_rates, lines 84-98: one endpoint is requested and answers with one
\* of the responses R
FetchFrom(t, R) ==
    /\ pc[t] = "fetching"
    /\ ep[t] <= NumEndpoints
    /\ \E r \in R :
         IF r.exc /= "none" \/ ParseRaises(r.body, Lower(base[t]))
         THEN RecordError(t)
         ELSE LET m == ParseApiResponse(r.body, Lower(base[t]))
              IN  IF DOMAIN m /= {}
                  THEN StoreRates(t, [src |-> Upper(base[t]), map |-> m])
                  ELSE SkipEmpty(t)

\* the endpoints quote the rates of the market or fail
FetchEndpoint(t) == FetchFrom(t, Responses(Upper(base[t])))

\* the endpoints may also send a body whose rates are zero or negative
FetchAnyBody(t) ==
    FetchFrom(t, Responses(Upper(base[t]))
                 \cup {[exc |-> "none", body |-> p] : p \in OddPayloads})

\* a _get_rates that degrades to the cached table when every endpoint failed
FetchFailServesCached(t) ==
    /\ pc[t] = "fetching"
    /\ ep[t] > NumEndpoints
    /\ lock' = NoThread
    /\ LocalsGone(t)
    /\ lastCS' = "get_rates"
    /\ IF Truthy(cache.rates)
       THEN /\ pc' = [pc EXCEPT ![t] = "got"]
            /\ rates' = [rates EXCEPT ![t] = cache.rates]
            /\ UNCHANGED result
       ELSE /\ Finished(t, Raised("ConnectionError"))
            /\ UNCHANGED rates
    /\ UNCHANGED <<config, cache, clock, parse, call, marginSeen, pre, concur>>

\* a _get_rates that acquires the lock without `with`: the ConnectionError
\* of the fetch leaves it held
FetchFailKeepsLock(t) ==
    /\ pc[t] = "fetching"
    /\ ep[t] > NumEndpoints
    /\ LocalsGone(t)
    /\ Finished(t, Raised("ConnectionError"))
    /\ lastCS' = "get_rates"
    /\ UNCHANGED <<config, cache, lock, clock, parse, call, rates, marginSeen,
                   pre, concur>>

\* _fetch_rates line 100: every endpoint failed, ConnectionError leaves
\* _get_rates and the operation, `with` releases the lock
FetchFail(t) ==
    /\ pc[t] = "fetching"
    /\ ep[t] > NumEndpoints
    /\ lock' = NoThread
    /\ LocalsGone(t)
    /\ Finished(t, Raised("ConnectionError"))
    /\ lastCS' = "get_rates"
    /\ UNCHANGED <<config, cache, clock, parse, call, rates, marginSeen, pre, concur>>

\* the caller of _get_rates goes on without the lock: rates.get(code), the
\* margin read of rate_with_margin and the arithmetic
Finish(t) ==
    /\ pc[t] = "got"
    /\ Finished(t, LookupResult(call[t], rates[t],
                                UsesMargin(call[t].op, marginSeen[t]),
                                config.margin_percent))
    /\ UNCHANGED <<config, cache, lock, clock, parse, call, locals, rates,
                   marginSeen, lastCS, pre, concur>>

\* the caller has its result; the thread is free for its next call
Return(t) ==
    /\ pc[t] = "done"
    /\ pc' = [pc EXCEPT ![t] = "idle"]
    /\ call' = [call EXCEPT ![t] = NoCall]
    /\ rates' = [rates EXCEPT ![t] = EmptyTable]
    /\ marginSeen' = [marginSeen EXCEPT ![t] = Num(0)]
    /\ result' = [result EXCEPT ![t] = NoResult]
    /\ pre' = [pre EXCEPT ![t] = EmptyTable]
    /\ concur' = [concur EXCEPT ![t] = FALSE]
    /\ UNCHANGED <<config, cache, lock, clock, parse, locals, lastCS>>

\* time passes
Tick ==
    /\ clock < MaxTime
    /\ clock' = clock + 1
    /\ UNCHANGED <<config, cache, lock, parse, pc, call, locals, rates, marginSeen,
                   result, lastCS, pre, concur>>

\* every thread configures, refreshes and looks rates up
Next ==
    \/ \E t \in Threads, c \in BaseArgs : SetBaseCall(t, c)
    \/ \E t \in Threads : SetBase(t)
    \/ \E t \in Threads, m \in TtlArgs : SetCacheTtl(t, m)
    \/ \E t \in Threads : RefreshCall(t)
    \/ \E t \in Threads : RefreshClear(t)
    \/ \E t \in Threads, c \in CacheCalls :
          LookupCall(t, c.op, c.code, c.amount)
    \/ \E t \in Threads : GetRatesHit(t)
    \/ \E t \in Threads : GetRatesMiss(t)
    \/ \E t \in Threads : FetchEndpoint(t)
    \/ \E t \in Threads : FetchFail(t)
    \/ \E t \in Threads : Finish(t)
    \/ \E t \in Threads : Return(t)
    \/ Tick

Spec == Init /\ [][Next]_vars

\* one thread uses every property and operator of the handles with every
\* amount while the margin is set at any moment
NextOps ==
    \/ \E t \in Threads, p \in MarginArgs : SetMargin(t, p)
    \/ \E o \in LookupOps, c \in HandleCodes, a \in Amounts :
          LookupCall(User, o, c, a)
    \/ GetRatesHit(User)
    \/ GetRatesMiss(User)
    \/ FetchEndpoint(User)
    \/ FetchFail(User)
    \/ Finish(User)
    \/ Return(User)

SpecOps == Init /\ [][NextOps]_vars

\* the calls of the thread that looks rates up while every setter is used
AnyCalls ==
    { [op |-> "rate", code |-> "EUR", amount |-> Num(0)],
      [op |-> "rmul", code |-> "EUR", amount |-> Num(100)] }

\* every thread uses the three setters while one thread refreshes and looks
\* rates up; the endpoints answer with any body
NextAny ==
    \/ \E t \in Threads, c \in BaseArgs : SetBaseCall(t, c)
    \/ \E t \in Threads : SetBase(t)
    \/ \E t \in Threads, p \in MarginArgs : SetMargin(t, p)
    \/ \E t \in Threads, m \in TtlArgs : SetCacheTtl(t, m)
    \/ RefreshCall(User)
    \/ RefreshClear(User)
    \/ \E c \in AnyCalls : LookupCall(User, c.op, c.code, c.amount)
    \/ GetRatesHit(User)
    \/ GetRatesMiss(User)
    \/ FetchAnyBody(User)
    \/ FetchFail(User)
    \/ Finish(User)
    \/ \E t \in Threads : Return(t)
    \/ Tick

SpecAny == Init /\ [][NextAny]_vars

\* the steps of a call of thread t that is under way
Progress(t) ==
    \/ SetBase(t)
    \/ RefreshClear(t)
    \/ GetRatesHit(t)
    \/ GetRatesMiss(t)
    \/ FetchEndpoint(t)
    \/ FetchFail(t)
    \/ Finish(t)

\* every thread calls set_base, refresh_rates and EUR.rate
NextFair ==
    \/ \E t \in Threads, c \in BaseArgs : SetBaseCall(t, c)
    \/ \E t \in Threads : RefreshCall(t)
    \/ \E t \in Threads : LookupCall(t, "rate", "EUR", Num(0))
    \/ \E t \in Threads : Progress(t)
    \/ \E t \in Threads : Return(t)

\* Fair scheduling: a thread that is not blocked takes its next step (a
\* request returns or fails within its 10 s timeout, line 88), and a thread
\* blocked on `with _lock` gets the lock if the lock is free again and again.
\* Nothing obliges a thread to call again.
Fairness ==
    \A t \in Threads :
        /\ SF_vars(SetBase(t))
        /\ SF_vars(RefreshClear(t))
        /\ SF_vars(GetRatesHit(t) \/ GetRatesMiss(t))
        /\ WF_vars(FetchEndpoint(t))
        /\ WF_vars(FetchFail(t))
        /\ WF_vars(Finish(t))

SpecFair == Init /\ [][NextFair]_vars /\ Fairness

\* ------------------------------------------- the normaliser on its own
\* the payloads _parse_api_response is applied to: every JSON object over the
\* keys rates, usd and eur whose values are a number, a code -> rate mapping
\* (quoted for USD, quoted for EUR, or empty) or a string
ParseKeys == {"rates", "usd", "eur"}
ParseValues ==
    {JNum(Rat(9, 10)), JObj(QuotedRates("USD")), JObj(QuotedRates("EUR")),
     JObj(EmptyMap), JStr}
ParseBodies == UNION {[K -> ParseValues] : K \in SUBSET ParseKeys}
\* _fetch_rates passes base_lower (line 92)
ParseBases == {"usd", "eur"}

InitParse ==
    /\ Loaded
    /\ data \in ParseBodies
    /\ dataBase \in ParseBases
    /\ parsed = NotParsed

\* _parse_api_response(data, dataBase, url), lines 57-74
Parse ==
    /\ parsed = NotParsed
    /\ parsed' = IF ParseRaises(data, dataBase)
                 THEN [kind |-> "raised", map |-> EmptyMap]
                 ELSE [kind |-> "map",
                       map |-> ParseApiResponse(data, dataBase)]
    /\ UNCHANGED <<config, cache, lock, clock, pc, call, locals, rates,
                   marginSeen, result, lastCS, pre, concur, data, dataBase>>

SpecParse == InitParse /\ [][Parse]_vars

\* ------------------------------------------------------------ properties
LookupCalls == LookupOps
\* thread t leaves _get_rates with a table in this step
ObtainsTable(t) == pc[t] \in {"gr_wait", "fetching"} /\ pc'[t] = "got"
\* thread t's lookup or conversion returns a number in this step
ReturnsValue(t) ==
    /\ pc[t] = "got"
    /\ pc'[t] = "done"
    /\ result'[t].kind = "value"

\* C1 as stated: under every interleaving, a rate lookup or conversion that
\* returns after set_base(B) has returned never returns a rate taken from a
\* table fetched for a base other than the configured base B.
C1_NoOldBaseRateReturned ==
    [][\A t \in Threads :
         ReturnsValue(t) => result'[t].src = Upper(config.base_currency)]_vars

\* C1 amended: the table _get_rates hands to a lookup was fetched for the base
\* configured at that moment, and the lookup returns a rate of that table; so
\* only a lookup that already left _get_rates when set_base(B) returned can
\* still return a rate of the old base.
C1_TableHandedOutIsForConfiguredBase ==
    [][\A t \in Threads :
         /\ ObtainsTable(t) =>
               /\ Truthy(rates'[t])
               /\ rates'[t].src = Upper(config'.base_currency)
         /\ ReturnsValue(t) => result'[t].src = rates[t].src]_vars

\* a lookup returned a rate of the EUR table after set_base('eur')
C1_Witness ==
    \E t \in Threads :
        /\ pc[t] = "done"
        /\ call[t].op \in LookupCalls
        /\ result[t].kind = "value"
        /\ result[t].src = "EUR"
        /\ config.base_currency = "EUR"

\* C2: after set_base(c) has returned, the next rate lookup to enter
\* _get_rates finds no valid entry, whatever was cached before, and issues a
\* fetch for Upper(c); the table it gets, stores and returns a rate from is
\* the one fetched for that base.
C2_LookupAfterSetBaseFetchesNewBase ==
    [][\A t \in Threads :
         /\ (pc[t] = "sb_wait" /\ pc'[t] = "done") =>
               config'.base_currency = Upper(call[t].code)
         /\ (pc[t] = "gr_wait" /\ pc'[t] /= "gr_wait" /\ lastCS = "set_base") =>
               /\ pc'[t] = "fetching"
               /\ base'[t] = config.base_currency
               /\ contacted'[t] = <<>>
         /\ (pc[t] = "fetching" /\ pc'[t] = "got") =>
               /\ rates'[t].src = Upper(base[t])
               /\ cache'.rates = rates'[t]
               /\ cache'.base = base[t]]_vars

\* a lookup is fetching for EUR right after set_base('eur')
C2_Witness ==
    \E t \in Threads :
        /\ pc[t] = "fetching"
        /\ call[t].op \in LookupCalls
        /\ lastCS = "set_base"
        /\ base[t] = "EUR"
        /\ config.base_currency = "EUR"

\* C3: _get_rates performs no fetch exactly when the entry is non-empty, its
\* base equals the configured base and now - fetch_timestamp < ttl (base and
\* ttl as they are at the access); otherwise, also at an age equal to the
\* ttl, it starts one fetch, and that fetch is the only one of the call.
C3_FetchExactlyWhenEntryInvalid ==
    [][\A t \in Threads :
         LET fresh == /\ Truthy(cache.rates)
                      /\ cache.base = config.base_currency
                      /\ clock - cache.last_fetch < config.cache_ttl_minutes
         IN  /\ Truthy(cache.rates) => cache.last_fetch /= NoneTime
             /\ (pc[t] = "gr_wait" /\ pc'[t] /= "gr_wait") =>
                   IF fresh
                   THEN /\ pc'[t] = "got"
                        /\ rates'[t] = cache.rates
                        /\ contacted'[t] = <<>>
                        /\ cache' = cache
                   ELSE /\ pc'[t] = "fetching"
                        /\ contacted'[t] = <<>>
             /\ pc[t] = "fetching" => pc'[t] \in {"fetching", "got", "done"}
             /\ pc[t] = "got" => pc'[t] \in {"got", "done"}]_vars

\* an entry of the configured base whose age equals a positive ttl is refetched
C3_Witness ==
    \E t \in Threads :
        /\ pc[t] = "fetching"
        /\ Truthy(cache.rates)
        /\ cache.base = base[t]
        /\ config.cache_ttl_minutes > 0
        /\ now[t] - cache.last_fetch = config.cache_ttl_minutes

\* the entry is valid for the configured base at this moment
Fresh ==
    /\ Truthy(cache.rates)
    /\ cache.base = config.base_currency
    /\ cache.last_fetch /= NoneTime
    /\ clock - cache.last_fetch < config.cache_ttl_minutes

\* C4 as stated: a lookup that waited for the lock while another thread
\* fetched and stored an entry (which nobody cleared since) performs no fetch
\* of its own.
C4_WaiterNeverFetches ==
    \A u \in Threads :
        ~(concur[u] /\ pc[u] = "fetching" /\ call[u].op \in LookupCalls)

\* C4 amended: no two threads are inside the check-fetch-write section of
\* _get_rates at once, and a thread that waited while another one fetched and
\* stored an entry is served that entry, without a fetch, if the entry is
\* still valid (same base, now - fetch_timestamp < ttl) when it gets the lock.
C4_OneFetcherAndWaiterServedWhileValid ==
    /\ [](Cardinality({t \in Threads : pc[t] = "fetching"}) <= 1)
    /\ [][\A u \in Threads :
            (pc[u] = "gr_wait" /\ pc'[u] /= "gr_wait" /\ concur[u] /\ Fresh) =>
                /\ pc'[u] = "got"
                /\ rates'[u] = cache.rates
                /\ cache' = cache
                /\ lock' = NoThread]_vars

\* a waiting lookup was served the entry the other thread had just stored
C4_Witness ==
    \E u \in Threads :
        /\ pc[u] = "got"
        /\ concur[u]
        /\ call[u].op \in LookupCalls
        /\ Truthy(rates[u])
        /\ rates[u] = cache.rates

\* C5: from the moment _get_rates finds the entry invalid until its fetch has
\* failed the cache entry (table, base, timestamp) is not changed; the call
\* ends with ConnectionError and the lock released.
C5_FailedFetchLeavesEntryUntouched ==
    [][\A t \in Threads :
         /\ (pc[t] = "gr_wait" /\ pc'[t] = "fetching") => cache' = cache
         /\ (pc[t] = "fetching" /\ pc'[t] = "fetching") => cache' = cache
         /\ (pc[t] = "fetching" /\ pc'[t] = "done") =>
               /\ cache' = cache
               /\ result'[t].kind = "ConnectionError"
               /\ lock' = NoThread]_vars

\* a rate lookup raised ConnectionError and the expired entry is still cached
C5_Witness ==
    \E t \in Threads :
        /\ pc[t] = "done"
        /\ call[t].op = "rate"
        /\ result[t].kind = "ConnectionError"
        /\ Truthy(cache.rates)
        /\ cache.last_fetch /= NoneTime

\* C6 as stated: when refresh_rates was called with a valid entry cached and
\* its fetch fails, the previously cached table is still in the cache when
\* refresh_rates raises.
C6_FailedRefreshKeepsPreviousTable ==
    [][\A t \in Threads :
         (/\ call[t].op = "refresh"
          /\ Truthy(pre[t])
          /\ pc[t] = "fetching"
          /\ pc'[t] = "done") => cache'.rates = pre[t]]_vars

\* C7: a lookup or conversion whose _get_rates found no valid entry and whose
\* every endpoint failed ends with ConnectionError: it returns no number (so
\* no zero) and is handed no table, cached or other.
C7_TotalFailureRaises ==
    [][\A t \in Threads :
         (/\ call[t].op \in LookupCalls
          /\ pc[t] = "fetching"
          /\ ep[t] > NumEndpoints
          /\ pc'[t] /= "fetching") =>
               /\ pc'[t] = "done"
               /\ result'[t].kind = "ConnectionError"
               /\ rates'[t] = EmptyTable]_vars

\* a conversion raised ConnectionError although an expired table is cached
C7_Witness ==
    \E t \in Threads :
        /\ pc[t] = "done"
        /\ call[t].op = "rmul"
        /\ result[t].kind = "ConnectionError"
        /\ Truthy(cache.rates)
        /\ clock - cache.last_fetch >= config.cache_ttl_minutes

\* C8 as stated: when every endpoint has failed, the errors the
\* ConnectionError carries hold one entry for every endpoint attempted.
C8_OneErrorPerAttemptedEndpoint ==
    \A t \in Threads :
        (pc[t] = "fetching" /\ ep[t] > NumEndpoints) =>
            errors[t] = contacted[t]

\* the margin was not set between the margin test of _convert and the read of
\* rate_with_margin
MarginStable(t) ==
    call[t].op \in ConvertOps => marginSeen[t] = config.margin_percent

\* r * (1 - m / 100) when m > 0, else r
ClaimedRate(r, m) ==
    IF m.n > 0 THEN RMul(r, RSub(Num(1), RDiv(m, Num(100)))) ELSE r

ReducedToConvert(o, a, e) ==
    CASE o \in {"rmul", "mul"} -> RMul(a, e)
      [] o = "truediv" -> RMul(RDiv(Num(1), a), e)
      [] o = "rtruediv" -> RDiv(a, e)
      [] o = "floordiv" -> RFloorDiv(e, a)
      [] o = "rfloordiv" -> RFloorDiv(a, e)
      [] o \in {"add", "radd"} -> RAdd(e, a)
      [] o = "sub" -> RSub(e, a)
      [] o = "rsub" -> RSub(a, e)
      [] o = "mod" -> RMod(e, a)
      [] o = "rmod" -> RMod(a, e)

\* C10 as stated: the result of every operator form (multiply, divide,
\* floor-divide, add, subtract, modulo and the reversed forms) is computed
\* from the effective rate convert uses, margin-adjusted when the margin is
\* positive.
C10_EveryOperatorUsesConvertRate ==
    [][\A t \in Threads :
         (/\ ReturnsValue(t)
          /\ call[t].op \in ConvertOps \cup {"rtruediv"}
          /\ MarginStable(t))
         => result'[t].val =
               ReducedToConvert(call[t].op, call[t].amount,
                   ClaimedRate(rates[t].map[call[t].code],
                               config.margin_percent))]_vars

\* C10 without the reversed division: the other eleven forms do
C10_OperatorsButRtruedivUseConvertRate ==
    [][\A t \in Threads :
         (ReturnsValue(t) /\ call[t].op \in ConvertOps /\ MarginStable(t))
         => result'[t].val =
               ReducedToConvert(call[t].op, call[t].amount,
                   ClaimedRate(rates[t].map[call[t].code],
                               config.margin_percent))]_vars

\* C11: a rate lookup (the rate property or any operator) whose code is absent
\* from the table _get_rates handed to it, after a fetch or a cache hit, ends
\* with the not-found error (ValueError): it returns no number, so no 0, and
\* no None, and it leaves the cache entry unchanged.
C11_AbsentCodeRaisesNotFound ==
    [][\A t \in Threads :
         (/\ pc[t] = "got"
          /\ pc'[t] = "done"
          /\ call[t].op \in LookupCalls
          /\ call[t].code \notin DOMAIN rates[t].map)
         => /\ result'[t].kind = "ValueError"
            /\ result'[t].kind \notin {"value", "None"}
            /\ cache' = cache]_vars

\* ZZZ.rate raised ValueError on the table that is cached
C11_Witness ==
    \E t \in Threads :
        /\ pc[t] = "done"
        /\ call[t].op = "rate"
        /\ call[t].code = "ZZZ"
        /\ result[t].kind = "ValueError"
        /\ Truthy(cache.rates)
        /\ "ZZZ" \notin DOMAIN cache.rates.map

\* out holds the rates of the mapping m unchanged under the upper-cased codes
SameRatesUpperCased(out, m) ==
    /\ DOMAIN out = {Upper(k) : k \in DOMAIN m}
    /\ \A k \in DOMAIN m : out[Upper(k)] = m[k]

\* the field or object the three shapes, tried in order, select from a payload
SelectedShape(d, b) ==
    IF "rates" \in DOMAIN d THEN d["rates"]
    ELSE IF Lower(b) \in DOMAIN d THEN d[Lower(b)]
    ELSE IF \A k \in DOMAIN d : d[k].t = "num"
         THEN JObj([k \in DOMAIN d |-> d[k].v])
    ELSE JObj(EmptyMap)

\* C12 as stated: for every payload the normaliser returns a mapping: that of
\* the rates field if there is one, otherwise that of the key of the
\* lower-cased base, otherwise the payload itself if every value is numeric,
\* otherwise the empty mapping; codes upper-cased, rates unchanged.
C12_NormalizerYieldsSelectedMapping ==
    parsed /= NotParsed =>
        /\ parsed.kind = "map"
        /\ SameRatesUpperCased(parsed.map, SelectedShape(data, dataBase).v)

\* C12 amended: the first of the three shapes whose key test matches is
\* selected (rates field, key of the lower-cased base, all values numeric);
\* if what it selects is a mapping the result is that mapping with the codes
\* upper-cased and the rates unchanged, and the empty mapping if no shape
\* matches; if the rates field or the base's key holds something else than a
\* mapping the normaliser raises and no later shape is tried.
C12_NormalizerShapesInOrder ==
    parsed /= NotParsed =>
        LET sel == SelectedShape(data, dataBase)
        IN  IF sel.t = "obj"
            THEN /\ parsed.kind = "map"
                 /\ SameRatesUpperCased(parsed.map, sel.v)
            ELSE parsed.kind = "raised"

\* a payload with a rates field and a key of the base gave the rates field's
\* mapping, upper-cased
C12_Witness ==
    /\ parsed.kind = "map"
    /\ dataBase = "usd"
    /\ DOMAIN data = {"rates", "usd"}
    /\ data["rates"] = JObj(QuotedRates("EUR"))
    /\ data["usd"] = JObj(QuotedRates("USD"))
    /\ parsed.map = [USD |-> Rat(5, 4), EUR |-> Num(1)]

\* C13 as stated: whenever refresh_rates returns normally the cache entry is
\* non-empty (and holds a table fetched after the call began), under any
\* interleaving with lookups and set_base calls of other threads.
C13_EntryNonEmptyWhenRefreshReturns ==
    [][\A t \in Threads :
         (pc[t] = "got" /\ pc'[t] = "done" /\ call[t].op = "refresh")
         => Truthy(cache'.rates)]_vars

\* C13 amended: refresh_rates empties the entry under the lock, and when its
\* _get_rates call returns and releases the lock the entry is non-empty and
\* is the table that call returns, stored after the entry was emptied: by the
\* call's own fetch or by the fetch of a thread that got the lock in between
\* (never the table cached before, even if that one was valid).  Between
\* that moment and the return of refresh_rates the lock is free, so the entry
\* may already be emptied again by another thread.
C13_RefreshGetsEntryFetchedAfterClear ==
    [][\A t \in Threads :
         /\ (pc[t] = "rf_wait" /\ pc'[t] /= "rf_wait") =>
               /\ pc'[t] = "gr_wait"
               /\ ~Truthy(cache'.rates)
               /\ cache'.last_fetch = NoneTime
         /\ (call[t].op = "refresh" /\ ObtainsTable(t)) =>
               /\ Truthy(cache'.rates)
               /\ cache'.rates = rates'[t]
               /\ lock' = NoThread
               /\ pc[t] = "fetching" \/ concur[t]
         /\ (call[t].op = "refresh" /\ pc[t] = "got" /\ pc'[t] /= "got") =>
               /\ pc'[t] = "done"
               /\ result'[t] = ReturnedNone]_vars

\* refresh_rates returned normally; a valid table was cached when it cleared
\* the entry and the entry now holds the table its _get_rates returned
C13_Witness ==
    \E t \in Threads :
        /\ pc[t] = "done"
        /\ call[t].op = "refresh"
        /\ result[t] = ReturnedNone
        /\ Truthy(pre[t])
        /\ Truthy(cache.rates)
        /\ cache.rates = rates[t]

\* C14 as stated: every rate of the cached table, and so every value a rate
\* lookup returns, is > 0 whatever the endpoints send; with margin 0 the
\* conversion of a positive amount is then > 0 too.
C14_CachedAndReturnedRatesPositive ==
    /\ \A c \in DOMAIN cache.rates.map : RPos(cache.rates.map[c])
    /\ \A t \in Threads :
          (pc[t] = "done" /\ result[t].kind = "value") =>
              /\ call[t].op = "rate" => RPos(result[t].val)
              /\ (/\ call[t].op = "rmul"
                  /\ RPos(call[t].amount)
                  /\ marginSeen[t] = Num(0)) => RPos(result[t].val)

\* C15: within one fetch the endpoints are requested in list order, each at
\* most once: the endpoints requested so far are 1 .. ep - 1 and all of them
\* failed (the fetch goes on, the cache is untouched); the fetch ends with
\* the table of the first endpoint whose normalised table is non-empty and
\* requests nothing after it; it raises only when all were requested.
C15_EndpointsInOrderFirstTableWins ==
    /\ [](\A t \in Threads :
            pc[t] = "fetching" =>
                /\ ep[t] \in 1..(NumEndpoints + 1)
                /\ contacted[t] = [i \in 1..(ep[t] - 1) |-> i])
    /\ [][\A t \in Threads :
            /\ (/\ pc[t] = "fetching"
                /\ pc'[t] = "fetching"
                /\ <<contacted'[t], ep'[t]>> /= <<contacted[t], ep[t]>>) =>
                  /\ ep[t] <= NumEndpoints
                  /\ contacted'[t] = Append(contacted[t], ep[t])
                  /\ ep'[t] = ep[t] + 1
                  /\ cache' = cache
            /\ (pc[t] = "fetching" /\ pc'[t] = "got") =>
                  /\ ep[t] <= NumEndpoints
                  /\ Truthy(rates'[t])
                  /\ cache'.rates = rates'[t]
                  /\ contacted'[t] = <<>>
            /\ (pc[t] = "fetching" /\ pc'[t] = "done") =>
                  /\ ep[t] = NumEndpoints + 1
                  /\ contacted'[t] = <<>>
            /\ (pc[t] /= "fetching" /\ pc'[t] /= "fetching") =>
                  contacted'[t] = contacted[t]]_vars

\* the first endpoint failed and the fetch is about to request the second
C15_Witness ==
    \E t \in Threads :
        /\ pc[t] = "fetching"
        /\ contacted[t] = <<1>>
        /\ ep[t] = 2
        /\ ep[t] <= NumEndpoints

\* C16: in every reachable state in which the lock is free, a non-empty
\* cached table is tagged with the configured base, was fetched for that
\* base and has its fetch timestamp set; set_base waits for a fetch in
\* progress, so no non-empty entry is left with a superseded base.
C16_FreeLockEntryMatchesConfiguredBase ==
    (lock = NoThread /\ Truthy(cache.rates)) =>
        /\ cache.base = config.base_currency
        /\ cache.rates.src = Upper(config.base_currency)
        /\ cache.last_fetch /= NoneTime
        /\ cache.last_fetch <= clock

\* a set_base('eur') was called while the USD table was being fetched (or
\* cached) and has not got the lock yet; the entry is the USD table
C16_Witness ==
    \E t \in Threads :
        /\ pc[t] = "sb_wait"
        /\ call[t].code = "eur"
        /\ lock = NoThread
        /\ lastCS = "get_rates"
        /\ Truthy(cache.rates)
        /\ cache.base = "usd"

\* a request is sent or a fetch starts or ends in this step
NetworkStep ==
    \/ contacted' /= contacted
    \/ ep' /= ep
    \/ \E t \in Threads : (pc[t] = "fetching") /= (pc'[t] = "fetching")

\* C17: refresh is lazy: only a thread inside a rate lookup / conversion or
\* refresh_rates fetches, and the passing of time alone fetches nothing;
\* set_base, set_margin and set_cache_ttl issue no network call, and
\* set_margin and set_cache_ttl change only their own configuration field:
\* the cache entry (table, base, timestamp) and the configured base stay.
C17_SettersDoNotFetchNorTouchEntry ==
    /\ [](\A t \in Threads :
            pc[t] = "fetching" => call[t].op \in LookupCalls \cup {"refresh"})
    /\ [][/\ NetworkStep =>
              \E t \in Threads :
                  /\ call[t].op \in LookupCalls \cup {"refresh"}
                  /\ pc[t] \in {"gr_wait", "fetching"}
                  /\ pc'[t] /= pc[t] \/ pc[t] = "fetching"
          /\ (\E t \in Threads : pc[t] = "sb_wait" /\ pc'[t] /= "sb_wait") =>
                 ~NetworkStep
          /\ clock' /= clock => (~NetworkStep /\ cache' = cache)
          /\ config'.margin_percent /= config.margin_percent =>
                 /\ ~NetworkStep
                 /\ cache' = cache
                 /\ config'.base_currency = config.base_currency
                 /\ config'.cache_ttl_minutes = config.cache_ttl_minutes
                 /\ lock' = lock
          /\ config'.cache_ttl_minutes /= config.cache_ttl_minutes =>
                 /\ ~NetworkStep
                 /\ cache' = cache
                 /\ config'.base_currency = config.base_currency
                 /\ config'.margin_percent = config.margin_percent
                 /\ lock' = lock]_vars

\* the margin and the ttl were set and the EUR table fetched after
\* set_base('eur') is cached
C17_Witness ==
    /\ config.margin_percent = Rat(7, 2)
    /\ config.cache_ttl_minutes = 1
    /\ config.base_currency = "EUR"
    /\ Truthy(cache.rates)
    /\ cache.base = "EUR"
    /\ cache.last_fetch = 0
    /\ clock = 1

\* thread t is inside a call of set_base, refresh_rates or a rate lookup
InCall(t) == pc[t] \in {"sb_wait", "rf_wait", "gr_wait", "fetching", "got"}

====
